---- MODULE Spec2Model ----
(***************************************************************************)
(* Model of express-jobly's SQL fragment builders (helpers/sql.js) and of  *)
(* the Job model (models/job.js) that calls them.                          *)
(*                                                                         *)
(* JavaScript values are tagged records, strings are TLA+ strings, and a   *)
(* JavaScript object is the sequence of its own entries in enumeration     *)
(* order together with its prototype.                                      *)
(***************************************************************************)
EXTENDS Integers, Sequences, FiniteSets, TLC

VARIABLES pc, call, result, jobs, nextId, queries

vars == <<pc, call, result, jobs, nextId, queries>>

-----------------------------------------------------------------------------
(* Bounds of the model. *)

\* largest number of entries of an update or criteria object
MaxEntries == 3
\* largest number of entries of a generated field-name map
MaxMapEntries == 1
\* largest number of entries of the data of a Job.update
MaxDataEntries == 2
\* largest id the jobs table's serial column hands out, and so the largest
\* number of rows the table comes to hold
MaxId == 2

-----------------------------------------------------------------------------
(* JavaScript values. *)

Undefined == [t |-> "undefined"]
Null == [t |-> "null"]
Bool(b) == [t |-> "boolean", b |-> b]
Num(n) == [t |-> "number", n |-> n]
Str(s) == [t |-> "string", s |-> s]
\* a native function, such as the members of Object.prototype
Fn(name) == [t |-> "function", name |-> name]
\* an object literal: own entries e, each [k |-> key, v |-> value]
Obj(e) == [t |-> "object", proto |-> "Object.prototype", e |-> e]
\* an array: its elements are own entries keyed by their index
Arr(e) == [t |-> "object", proto |-> "Array.prototype", e |-> e]

\* the members every object literal inherits from Object.prototype
ObjectPrototypeMembers == {"toString", "constructor"}

RECURSIVE DigitsOf(_)
DigitsOf(n) ==
  LET d == SubSeq("0123456789", (n % 10) + 1, (n % 10) + 1)
  IN IF n < 10 THEN d ELSE DigitsOf(n \div 10) \o d

\* Number.prototype.toString for integers
NumberToString(n) == IF n < 0 THEN "-" \o DigitsOf(0 - n) ELSE DigitsOf(n)

\* String(v), as the template literal and Array.prototype.join apply it
StringOf(v) ==
  CASE v.t = "string" -> v.s
    [] v.t = "number" -> NumberToString(v.n)
    [] v.t = "boolean" -> (IF v.b THEN "true" ELSE "false")
    [] v.t = "null" -> "null"
    [] v.t = "undefined" -> "undefined"
    [] v.t = "function" -> "function " \o v.name \o "() { [native code] }"
    [] OTHER -> "[object Object]"

\* ToBoolean(v), as the || operator applies it
Truthy(v) ==
  CASE v.t = "undefined" -> FALSE
    [] v.t = "null" -> FALSE
    [] v.t = "boolean" -> v.b
    [] v.t = "number" -> v.n # 0
    [] v.t = "string" -> v.s # ""
    [] OTHER -> TRUE

\* String.prototype.includes
Includes(s, sub) ==
  \E i \in 1..(Len(s) - Len(sub) + 1) : SubSeq(s, i, i + Len(sub) - 1) = sub

\* Array.prototype.join over a sequence of strings
RECURSIVE Join(_, _)
Join(strs, sep) ==
  IF Len(strs) = 0 THEN ""
  ELSE IF Len(strs) = 1 THEN strs[1]
  ELSE strs[1] \o sep \o Join(Tail(strs), sep)

\* Object.keys(o): own keys in enumeration order
ObjectKeys(o) == [i \in 1..Len(o.e) |-> o.e[i].k]

\* Object.values(o): own values in enumeration order
ObjectValues(o) == [i \in 1..Len(o.e) |-> o.e[i].v]

HasOwn(o, key) == \E i \in 1..Len(o.e) : o.e[i].k = key

\* o[key]: the own entry, else the member inherited from the prototype
Get(o, key) ==
  IF HasOwn(o, key)
  THEN (CHOOSE en \in {o.e[i] : i \in 1..Len(o.e)} : en.k = key).v
  ELSE IF o.proto = "Object.prototype" /\ key \in ObjectPrototypeMembers
  THEN Fn(key)
  ELSE Undefined

\* key in o
In(key, o) ==
  HasOwn(o, key) \/ (o.proto = "Object.prototype" /\ key \in ObjectPrototypeMembers)

\* Object.getPrototypeOf(v); "throws" stands for the TypeError on null
GetPrototypeOf(v) ==
  CASE v.t \in {"undefined", "null"} -> "throws"
    [] v.t = "object" -> v.proto
    [] v.t = "string" -> "String.prototype"
    [] v.t = "number" -> "Number.prototype"
    [] v.t = "boolean" -> "Boolean.prototype"
    [] OTHER -> "Function.prototype"

-----------------------------------------------------------------------------
(* Outcomes of a call. *)

Return(v) == [threw |-> FALSE, value |-> v]
Throw(name, message) == [threw |-> TRUE, error |-> [name |-> name, message |-> message]]
BadRequestError(message) == Throw("BadRequestError", message)
NotFoundError(message) == Throw("NotFoundError", message)
TypeError(message) == Throw("TypeError", message)

NoResult == [threw |-> FALSE, value |-> Undefined]
NoCall == [fn |-> "none", args |-> <<>>]

-----------------------------------------------------------------------------
(* helpers/sql.js *)

\* validateArgs without its check for an empty dataToUpdate
validateArgsAllowingEmpty(dataToUpdate, jsToSql) ==
  IF dataToUpdate = Undefined \/ jsToSql = Undefined
  THEN BadRequestError("Missing args")
  ELSE IF GetPrototypeOf(dataToUpdate) = "throws"
  THEN TypeError("Cannot convert undefined or null to object")
  ELSE IF GetPrototypeOf(dataToUpdate) # "Object.prototype"
  THEN BadRequestError("Args must be object literals")
  ELSE IF GetPrototypeOf(jsToSql) = "throws"
  THEN TypeError("Cannot convert undefined or null to object")
  ELSE IF GetPrototypeOf(jsToSql) # "Object.prototype"
  THEN BadRequestError("Args must be object literals")
  ELSE Return(Undefined)

validateArgs(dataToUpdate, jsToSql) ==
  IF dataToUpdate = Undefined \/ jsToSql = Undefined
  THEN BadRequestError("Missing args")
  ELSE IF GetPrototypeOf(dataToUpdate) = "throws"
  THEN TypeError("Cannot convert undefined or null to object")
  ELSE IF GetPrototypeOf(dataToUpdate) # "Object.prototype"
  THEN BadRequestError("Args must be object literals")
  ELSE IF GetPrototypeOf(jsToSql) = "throws"
  THEN TypeError("Cannot convert undefined or null to object")
  ELSE IF GetPrototypeOf(jsToSql) # "Object.prototype"
  THEN BadRequestError("Args must be object literals")
  ELSE IF Len(ObjectKeys(dataToUpdate)) = 0
  THEN BadRequestError("No data")
  ELSE Return(Undefined)

\* jsToSql[colName] || colName
ColumnName(jsToSql, colName) ==
  IF Truthy(Get(jsToSql, colName)) THEN Get(jsToSql, colName) ELSE Str(colName)

\* `"${jsToSql[colName] || colName}"=$${idx + 1}`, idx counted from 0
SetItem(jsToSql, colName, idx) ==
  "\"" \o StringOf(ColumnName(jsToSql, colName)) \o "\"=$" \o NumberToString(idx + 1)

\* the values with the falsy ones (null, 0, false) filtered out
UpdateValuesTruthy(dataToUpdate) == SelectSeq(ObjectValues(dataToUpdate), Truthy)

\* Object.values(dataToUpdate)
UpdateValues(dataToUpdate) == ObjectValues(dataToUpdate)

sqlForPartialUpdate(dataToUpdate, jsToSql) ==
  LET valid == validateArgs(dataToUpdate, jsToSql)
  IN IF valid.threw THEN valid
     ELSE LET keys == ObjectKeys(dataToUpdate)
              cols == [i \in 1..Len(keys) |-> SetItem(jsToSql, keys[i], i - 1)]
          IN Return([setCols |-> Join(cols, ", "),
                     values |-> UpdateValues(dataToUpdate)])


\* the test that drops the string 'false' only
NotFalseStringOnly(v) == v # Str("false")

\* criteria[c] !== false && criteria[c] !== 'false'
NotFalse(v) == v # Bool(FALSE) /\ v # Str("false")

\* the test for true without its string form
IsTrueBooleanOnly(v) == v = Bool(TRUE)

\* criteria[c] === true || criteria[c] === 'true'
IsTrue(v) == v = Bool(TRUE) \/ v = Str("true")

\* the operand without the substring pattern
OperandBare(sql, paramNum) == " $" \o NumberToString(paramNum)

\* the operand text the map callback appends for placeholder number paramNum
Operand(sql, paramNum) ==
  IF Includes(sql, "ILIKE")
  THEN " CONCAT('%', $" \o NumberToString(paramNum) \o "::text, '%')"
  ELSE " $" \o NumberToString(paramNum)

\* the .map callback with paramNum advanced for every criterion, the true
\* ones included
RECURSIVE MapConditionsCountingAll(_, _, _, _, _, _)
MapConditionsCountingAll(criteria, criteriaToSql, cs, paramNum, conds, values) ==
  IF Len(cs) = 0 THEN Return([conds |-> conds, values |-> values])
  ELSE LET c == cs[1]
           sql == Get(criteriaToSql, c)
       IN IF IsTrue(Get(criteria, c))
          THEN MapConditionsCountingAll(criteria, criteriaToSql, Tail(cs), paramNum + 1,
                                        Append(conds, sql), values)
          ELSE IF sql.t # "string"
          THEN TypeError("sql.includes is not a function")
          ELSE MapConditionsCountingAll(criteria, criteriaToSql, Tail(cs), paramNum + 1,
                                        Append(conds, Str(sql.s \o Operand(sql.s, paramNum))),
                                        Append(values, Get(criteria, c)))

\* the .map callback run over cs from left to right, paramNum and values
\* being the closure's variables; sql.includes exists on strings only
RECURSIVE MapConditions(_, _, _, _, _, _)
MapConditions(criteria, criteriaToSql, cs, paramNum, conds, values) ==
  IF Len(cs) = 0 THEN Return([conds |-> conds, values |-> values])
  ELSE LET c == cs[1]
           sql == Get(criteriaToSql, c)
       IN IF IsTrue(Get(criteria, c))
          THEN MapConditions(criteria, criteriaToSql, Tail(cs), paramNum,
                             Append(conds, sql), values)
          ELSE IF sql.t # "string"
          THEN TypeError("sql.includes is not a function")
          ELSE MapConditions(criteria, criteriaToSql, Tail(cs), paramNum + 1,
                             Append(conds, Str(sql.s \o Operand(sql.s, paramNum))),
                             Append(values, Get(criteria, c)))

\* sqlForFilterBy taking the valid criteria in the order of criteriaToSql's
\* keys instead of the order of criteria's
sqlForFilterByMapOrder(criteria, criteriaToSql) ==
  LET Valid(c) == HasOwn(criteria, c)
      validCriteria == SelectSeq(ObjectKeys(criteriaToSql), Valid)
      Kept(c) == NotFalse(Get(criteria, c))
      mapped == MapConditions(criteria, criteriaToSql,
                              SelectSeq(validCriteria, Kept), 1, <<>>, <<>>)
  IN IF Len(validCriteria) = 0
     THEN BadRequestError("Could not filter by criteria provided")
     ELSE IF mapped.threw THEN mapped
     ELSE LET sqlConditions == mapped.value.conds
              strs == [i \in 1..Len(sqlConditions) |-> StringOf(sqlConditions[i])]
          IN Return([whereClause |-> IF Len(sqlConditions) # 0
                                     THEN "WHERE " \o Join(strs, " AND ")
                                     ELSE "",
                     values |-> mapped.value.values])

sqlForFilterBy(criteria, criteriaToSql) ==
  LET Valid(c) == In(c, criteriaToSql)
      validCriteria == SelectSeq(ObjectKeys(criteria), Valid)
      Kept(c) == NotFalse(Get(criteria, c))
      mapped == MapConditions(criteria, criteriaToSql,
                              SelectSeq(validCriteria, Kept), 1, <<>>, <<>>)
  IN IF Len(validCriteria) = 0
     THEN BadRequestError("Could not filter by criteria provided")
     ELSE IF mapped.threw THEN mapped
     ELSE LET sqlConditions == mapped.value.conds
              strs == [i \in 1..Len(sqlConditions) |-> StringOf(sqlConditions[i])]
          IN Return([whereClause |-> IF Len(sqlConditions) # 0
                                     THEN "WHERE " \o Join(strs, " AND ")
                                     ELSE "",
                     values |-> mapped.value.values])

-----------------------------------------------------------------------------
(* The store behind db.query: the jobs and companies tables. *)

\* the handles of the companies table
Companies == {"c1"}

JobColumns == {"id", "title", "salary", "equity", "company_handle"}

\* the object a row becomes under Job.publicFields
PublicFields(row) ==
  Obj(<<[k |-> "id", v |-> row.id],
        [k |-> "title", v |-> row.title],
        [k |-> "salary", v |-> row.salary],
        [k |-> "equity", v |-> row.equity],
        [k |-> "companyHandle", v |-> row.company_handle]>>)

\* the value a column holds, and a query returns, for a parameter: NUMERIC
\* equity comes back as text, undefined is stored as NULL
Stored(col, v) ==
  IF v.t = "undefined" THEN Null
  ELSE IF col = "equity" /\ v.t = "number" THEN Str(NumberToString(v.n))
  ELSE v

\* the pieces of s between occurrences of sep
RECURSIVE Split(_, _)
Split(s, sep) ==
  LET at == {i \in 1..(Len(s) - Len(sep) + 1) : SubSeq(s, i, i + Len(sep) - 1) = sep}
  IN IF at = {} THEN <<s>>
     ELSE LET i == CHOOSE m \in at : \A n \in at : m <= n
          IN <<SubSeq(s, 1, i - 1)>> \o Split(SubSeq(s, i + Len(sep), Len(s)), sep)

\* the number a string of decimal digits denotes
RECURSIVE ParseInt(_)
ParseInt(s) ==
  IF Len(s) = 0 THEN 0
  ELSE LET last == SubSeq(s, Len(s), Len(s))
           d == CHOOSE n \in 0..9 : SubSeq("0123456789", n + 1, n + 1) = last
       IN 10 * ParseInt(SubSeq(s, 1, Len(s) - 1)) + d

\* one assignment '"<column>"=$<n>' of a SET list, as the store reads it
Assignment(item) ==
  LET parts == Split(item, "\"=$")
  IN IF Len(parts) # 2 THEN [column |-> "", param |-> 0]
     ELSE [column |-> SubSeq(parts[1], 2, Len(parts[1])), param |-> ParseInt(parts[2])]

\* UPDATE jobs SET <setCols> WHERE id = <idParam> RETURNING <publicFields>:
\* the table afterwards and the rows returned, or the store's error
DbUpdateJobs(table, setCols, idParam, params) ==
  LET items == Split(setCols, ", ")
      assigns == [i \in 1..Len(items) |-> Assignment(items[i])]
      idValue == params[ParseInt(SubSeq(idParam, 2, Len(idParam)))]
      known == \A i \in 1..Len(assigns) : assigns[i].column \in JobColumns
      once == \A i, k \in 1..Len(assigns) :
                 assigns[i].column = assigns[k].column => i = k
      New(row) == [col \in JobColumns |->
                     IF \E i \in 1..Len(assigns) : assigns[i].column = col
                     THEN Stored(col, params[(CHOOSE a \in {assigns[i] : i \in 1..Len(assigns)} :
                                                a.column = col).param])
                     ELSE row[col]]
      hit == {row \in table : row.id = idValue}
  IN IF ~(known /\ once)
     THEN [error |-> TRUE, table |-> table, rows |-> {}]
     ELSE [error |-> FALSE,
           table |-> (table \ hit) \cup {New(row) : row \in hit},
           rows |-> {PublicFields(New(row)) : row \in hit}]

UpperCase == "ABCDEFGHIJKLMNOPQRSTUVWXYZ"
LowerCase == "abcdefghijklmnopqrstuvwxyz"

\* s with its capital letters made small, as ILIKE compares it
RECURSIVE Lower(_)
Lower(s) ==
  IF Len(s) = 0 THEN ""
  ELSE LET ch == SubSeq(s, 1, 1)
           small == IF \E n \in 1..26 : SubSeq(UpperCase, n, n) = ch
                    THEN LET n == CHOOSE n \in 1..26 : SubSeq(UpperCase, n, n) = ch
                         IN SubSeq(LowerCase, n, n)
                    ELSE ch
       IN small \o Lower(SubSeq(s, 2, Len(s)))

\* the position of a character in the collation of titles
Collation == " 0123456789abcdefghijklmnopqrstuvwxyz"

CharRank(ch) ==
  IF \E n \in 1..Len(Collation) : SubSeq(Collation, n, n) = ch
  THEN CHOOSE n \in 1..Len(Collation) : SubSeq(Collation, n, n) = ch
  ELSE 0

\* a sorts strictly before b
RECURSIVE StringLess(_, _)
StringLess(a, b) ==
  IF Len(b) = 0 THEN FALSE
  ELSE IF Len(a) = 0 THEN TRUE
  ELSE IF SubSeq(a, 1, 1) # SubSeq(b, 1, 1)
  THEN CharRank(SubSeq(a, 1, 1)) < CharRank(SubSeq(b, 1, 1))
  ELSE StringLess(SubSeq(a, 2, Len(a)), SubSeq(b, 2, Len(b)))

NonZeroDigits == {"1", "2", "3", "4", "5", "6", "7", "8", "9"}

\* a NUMERIC column value above zero: one of its digits is not 0
Positive(numeric) ==
  /\ numeric.t = "string"
  /\ \E i \in 1..Len(numeric.s) : SubSeq(numeric.s, i, i) \in NonZeroDigits

\* a parameter the store reads as an integer
IntegerParam(v) ==
  \/ v.t = "number"
  \/ /\ v.t = "string"
     /\ Len(v.s) > 0
     /\ \A i \in 1..Len(v.s) : SubSeq(v.s, i, i) \in NonZeroDigits \cup {"0"}

IntegerOf(v) == IF v.t = "number" THEN v.n ELSE ParseInt(v.s)

TitlePattern(n) == "title ILIKE CONCAT('%', $" \o NumberToString(n) \o "::text, '%')"
SalaryFloor(n) == "salary >= $" \o NumberToString(n)

\* the placeholder a condition of the WHERE clause refers to, 0 for none
ConditionParam(cond, params) ==
  IF \E n \in 1..Len(params) : cond \in {TitlePattern(n), SalaryFloor(n)}
  THEN CHOOSE n \in 1..Len(params) : cond \in {TitlePattern(n), SalaryFloor(n)}
  ELSE 0

\* the store accepts the condition with these parameters
ConditionAccepted(cond, params) ==
  \/ cond = "equity > 0"
  \/ \E n \in 1..Len(params) :
       \/ cond = TitlePattern(n)
       \/ cond = SalaryFloor(n) /\ IntegerParam(params[n])

\* the row satisfies an accepted condition; a comparison with NULL does not hold
ConditionHolds(row, cond, params) ==
  LET n == ConditionParam(cond, params)
  IN IF cond = "equity > 0" THEN Positive(row.equity)
     ELSE IF cond = TitlePattern(n)
     THEN /\ row.title.t = "string"
          /\ Includes(Lower(row.title.s), Lower(StringOf(params[n])))
     ELSE /\ row.salary.t = "number"
          /\ row.salary.n >= IntegerOf(params[n])

\* the orders ORDER BY title can return rows in: rows of equal title come in
\* an order the store chooses
OrderedByTitle(rows) ==
  {s \in [1..Cardinality(rows) -> rows] :
     \A i, k \in 1..Len(s) :
       i < k => s[i] # s[k] /\ ~StringLess(s[k].title.s, s[i].title.s)}

\* the SELECT with a WHERE clause that one condition alone satisfies
DbSelectJobsAnyCondition(table, whereClause, params) ==
  LET conds == IF whereClause = "" THEN <<>>
               ELSE Split(SubSeq(whereClause, Len("WHERE ") + 1, Len(whereClause)), " AND ")
      accepted == /\ whereClause = "" \/ SubSeq(whereClause, 1, Len("WHERE ")) = "WHERE "
                  /\ \A i \in 1..Len(conds) : ConditionAccepted(conds[i], params)
                  /\ {ConditionParam(conds[i], params) : i \in 1..Len(conds)} \ {0}
                       = 1..Len(params)
      hit == {row \in table : conds = <<>> \/ \E i \in 1..Len(conds) : ConditionHolds(row, conds[i], params)}
  IN IF ~accepted
     THEN [error |-> TRUE, rows |-> {}]
     ELSE [error |-> FALSE,
           rows |-> {Arr([i \in 1..Len(s) |-> [k |-> NumberToString(i - 1),
                                               v |-> PublicFields(s[i])]]) :
                       s \in OrderedByTitle(hit)}]

\* SELECT <publicFields> FROM jobs <whereClause> ORDER BY title: the row lists
\* the store can return, or its error for a clause it cannot run
DbSelectJobs(table, whereClause, params) ==
  LET conds == IF whereClause = "" THEN <<>>
               ELSE Split(SubSeq(whereClause, Len("WHERE ") + 1, Len(whereClause)), " AND ")
      accepted == /\ whereClause = "" \/ SubSeq(whereClause, 1, Len("WHERE ")) = "WHERE "
                  /\ \A i \in 1..Len(conds) : ConditionAccepted(conds[i], params)
                  /\ {ConditionParam(conds[i], params) : i \in 1..Len(conds)} \ {0}
                       = 1..Len(params)
      hit == {row \in table : \A i \in 1..Len(conds) : ConditionHolds(row, conds[i], params)}
  IN IF ~accepted
     THEN [error |-> TRUE, rows |-> {}]
     ELSE [error |-> FALSE,
           rows |-> {Arr([i \in 1..Len(s) |-> [k |-> NumberToString(i - 1),
                                               v |-> PublicFields(s[i])]]) :
                       s \in OrderedByTitle(hit)}]

-----------------------------------------------------------------------------
(* models/job.js *)

\* a field-name map without the entry of companyHandle
JobJsToSqlEmpty == Obj(<<>>)

\* the field-name map of Job.update
JobJsToSql == Obj(<<[k |-> "companyHandle", v |-> Str("company_handle")]>>)

UpdateQuery(setCols, idParam) ==
  "UPDATE jobs SET " \o setCols \o " WHERE id = " \o idParam
    \o " RETURNING id, title, salary, equity, company_handle AS \"companyHandle\""

\* "$" + values.length: the id on the placeholder of the last update value
IdParamLast(values) == "$" \o NumberToString(Len(values))

\* "$" + (values.length + 1)
IdParam(values) == "$" \o NumberToString(Len(values) + 1)

\* the result of Job.update, the table afterwards and the queries issued
JobUpdateOutcome(table, id, data) ==
  LET built == sqlForPartialUpdate(data, JobJsToSql)
  IN IF built.threw
     THEN [result |-> built, table |-> table, queries |-> <<>>]
     ELSE LET setCols == built.value.setCols
              values == built.value.values
              idParam == IdParam(values)
              params == Append(values, id)
              done == DbUpdateJobs(table, setCols, idParam, params)
              issued == <<[text |-> UpdateQuery(setCols, idParam), params |-> params]>>
          IN IF done.error
             THEN [result |-> Throw("Error", "query failed"), table |-> table,
                   queries |-> issued]
             ELSE IF done.rows = {}
             THEN [result |-> NotFoundError("No job with id: " \o StringOf(id)),
                   table |-> done.table, queries |-> issued]
             ELSE [result |-> Return(CHOOSE job \in done.rows : TRUE),
                   table |-> done.table, queries |-> issued]

CompanyQuery == "SELECT handle FROM companies WHERE handle = $1"

InsertQuery ==
  "INSERT INTO jobs (title, salary, equity, company_handle) VALUES ($1, $2, $3, $4)"
    \o " RETURNING id, title, salary, equity, company_handle AS \"companyHandle\""

DeleteQuery == "DELETE FROM jobs WHERE id = $1 RETURNING id"

\* Job.create inserting without the lookup of the company
JobCreateOutcomeNoLookup(table, id, data) ==
  LET title == Get(data, "title")
      salary == Get(data, "salary")
      equity == Get(data, "equity")
      companyHandle == Get(data, "companyHandle")
      row == [id |-> Num(id), title |-> Stored("title", title),
              salary |-> Stored("salary", salary),
              equity |-> Stored("equity", equity),
              company_handle |-> Stored("company_handle", companyHandle)]
  IN [result |-> Return(PublicFields(row)),
      table |-> table \cup {row},
      queries |-> <<[text |-> InsertQuery,
                     params |-> <<title, salary, equity, companyHandle>>]>>]

\* the result of Job.create, the table afterwards and the queries issued;
\* id is the value the serial column hands out next
JobCreateOutcome(table, id, data) ==
  LET title == Get(data, "title")
      salary == Get(data, "salary")
      equity == Get(data, "equity")
      companyHandle == Get(data, "companyHandle")
      lookup == [text |-> CompanyQuery, params |-> <<companyHandle>>]
      row == [id |-> Num(id), title |-> Stored("title", title),
              salary |-> Stored("salary", salary),
              equity |-> Stored("equity", equity),
              company_handle |-> Stored("company_handle", companyHandle)]
  IN IF ~(\E h \in Companies : companyHandle = Str(h))
     THEN [result |-> BadRequestError("No company: " \o StringOf(companyHandle)),
           table |-> table, queries |-> <<lookup>>]
     ELSE [result |-> Return(PublicFields(row)),
           table |-> table \cup {row},
           queries |-> <<lookup, [text |-> InsertQuery,
                                  params |-> <<title, salary, equity, companyHandle>>]>>]

GetQuery ==
  "SELECT id, title, salary, equity, company_handle AS \"companyHandle\" FROM jobs"
    \o " WHERE id = $1"

\* Job.get handing on rows[0] without looking at it
JobGetOutcomeUnchecked(table, id) ==
  LET hit == {row \in table : row.id = id}
      issued == <<[text |-> GetQuery, params |-> <<id>>]>>
  IN IF hit = {}
     THEN [result |-> Return(Undefined), table |-> table, queries |-> issued]
     ELSE [result |-> Return(PublicFields(CHOOSE row \in hit : TRUE)),
           table |-> table, queries |-> issued]

\* the result of Job.get, the table afterwards and the queries issued
JobGetOutcome(table, id) ==
  LET hit == {row \in table : row.id = id}
      issued == <<[text |-> GetQuery, params |-> <<id>>]>>
  IN IF hit = {}
     THEN [result |-> NotFoundError("No job with id: " \o StringOf(id)),
           table |-> table, queries |-> issued]
     ELSE [result |-> Return(PublicFields(CHOOSE row \in hit : TRUE)),
           table |-> table, queries |-> issued]

\* Job.remove with a DELETE that is not restricted to the id
JobRemoveOutcomeAll(table, id) ==
  LET hit == {row \in table : row.id = id}
      issued == <<[text |-> DeleteQuery, params |-> <<id>>]>>
  IN IF hit = {}
     THEN [result |-> NotFoundError("No job with id " \o StringOf(id)),
           table |-> table, queries |-> issued]
     ELSE [result |-> Return(Undefined), table |-> {}, queries |-> issued]

\* the result of Job.remove, the table afterwards and the queries issued
JobRemoveOutcome(table, id) ==
  LET hit == {row \in table : row.id = id}
      issued == <<[text |-> DeleteQuery, params |-> <<id>>]>>
  IN IF hit = {}
     THEN [result |-> NotFoundError("No job with id " \o StringOf(id)),
           table |-> table, queries |-> issued]
     ELSE [result |-> Return(Undefined), table |-> table \ hit, queries |-> issued]

\* the criterion map of Job.filterBy
FilterCriteriaToSql ==
  Obj(<<[k |-> "title", v |-> Str("title ILIKE")],
        [k |-> "minSalary", v |-> Str("salary >=")],
        [k |-> "hasEquity", v |-> Str("equity > 0")]>>)

SelectQuery(whereClause) ==
  "SELECT id, title, salary, equity, company_handle AS \"companyHandle\" FROM jobs "
    \o whereClause \o " ORDER BY title"

\* the results Job.findAll can have, with the table and the query issued
JobFindAllOutcomes(table) ==
  LET done == DbSelectJobs(table, "", <<>>)
  IN {[result |-> Return(rows), table |-> table,
       queries |-> <<[text |-> SelectQuery(""), params |-> <<>>]>>] : rows \in done.rows}

\* the results Job.filterBy can have, with the table and the queries issued
JobFilterByOutcomes(table, criteria) ==
  LET built == sqlForFilterBy(criteria, FilterCriteriaToSql)
  IN IF built.threw
     THEN {[result |-> built, table |-> table, queries |-> <<>>]}
     ELSE LET whereClause == built.value.whereClause
              values == built.value.values
              done == DbSelectJobs(table, whereClause, values)
              issued == <<[text |-> SelectQuery(whereClause), params |-> values]>>
          IN IF done.error
             THEN {[result |-> Throw("Error", "query failed"), table |-> table,
                    queries |-> issued]}
             ELSE {[result |-> Return(rows), table |-> table, queries |-> issued] :
                     rows \in done.rows}

-----------------------------------------------------------------------------
(* middleware/auth.js *)

\* an error object, known by the name of its class
ErrorValue(name) == [t |-> "error", name |-> name]

\* new UnauthorizedError()
UnauthorizedError == ErrorValue("UnauthorizedError")

\* what a next that raises synchronously raises
NextRaised == ErrorValue("Error")

\* the middleware returned, having called next with each of these argument lists
Passed(called) == [threw |-> FALSE, value |-> Undefined, next |-> called]

\* catch (err) { return next(err); } after the calls of next already made;
\* what next raises here leaves the middleware
Caught(err, called, raises) ==
  IF raises
  THEN [threw |-> TRUE, error |-> [name |-> NextRaised.name, message |-> ""],
        next |-> Append(called, <<err>>)]
  ELSE Passed(Append(called, <<err>>))

\* return next(); inside the try block
NextInTry(raises) ==
  IF raises THEN Caught(NextRaised, <<(<<>>)>>, raises) ELSE Passed(<<(<<>>)>>)

\* ensureAdmin letting every logged-in user through
ensureAdminAnyUser(req, res, raises) ==
  LET user == Get(Get(res, "locals"), "user")
  IN IF Truthy(user)
     THEN NextInTry(raises)
     ELSE Caught(UnauthorizedError, <<>>, raises)

\* ensureAdmin turning away only the users who are no admins
ensureAdminUnlessAnonymous(req, res, raises) ==
  LET user == Get(Get(res, "locals"), "user")
  IN IF ~Truthy(user) \/ Truthy(Get(user, "isAdmin"))
     THEN NextInTry(raises)
     ELSE Caught(UnauthorizedError, <<>>, raises)

\* ensureAdmin(req, res, next), next raising synchronously or not
ensureAdmin(req, res, raises) ==
  LET user == Get(Get(res, "locals"), "user")
  IN IF Truthy(user) /\ Truthy(Get(user, "isAdmin"))
     THEN NextInTry(raises)
     ELSE Caught(UnauthorizedError, <<>>, raises)

\* ensureAuthUserOrAdmin without the admin's right to act for another user
ensureAuthUserOrAdminSameUser(req, res, raises) ==
  LET username == Get(Get(req, "params"), "username")
      user == Get(Get(res, "locals"), "user")
  IN IF Truthy(user) /\ Get(user, "username") = username
     THEN NextInTry(raises)
     ELSE Caught(UnauthorizedError, <<>>, raises)

\* ensureAuthUserOrAdmin(req, res, next), next raising synchronously or not
ensureAuthUserOrAdmin(req, res, raises) ==
  LET username == Get(Get(req, "params"), "username")
      user == Get(Get(res, "locals"), "user")
  IN IF Truthy(user) /\ (Get(user, "username") = username \/ Truthy(Get(user, "isAdmin")))
     THEN NextInTry(raises)
     ELSE Caught(UnauthorizedError, <<>>, raises)

\* the key of ../config that tokens are signed with
SECRET_KEY == "secret"

\* jwt.sign({ username, isAdmin }, key): the token names its key and payload
Sign(username, isAdmin, key) ==
  key \o "." \o username \o "." \o (IF isAdmin THEN "1" ELSE "0")

\* jwt.verify taking a token signed with whatever key
VerifyAnyKey(token, key) ==
  LET parts == Split(token, ".")
  IN IF Len(parts) = 3 /\ parts[3] \in {"0", "1"}
     THEN Return(Obj(<<[k |-> "iat", v |-> Num(1)],
                       [k |-> "username", v |-> Str(parts[2])],
                       [k |-> "isAdmin", v |-> Bool(parts[3] = "1")]>>))
     ELSE Throw("JsonWebTokenError", "invalid token")

\* jwt.verify(token, key): the payload of a token signed with key, or the
\* error thrown for any other string
Verify(token, key) ==
  LET parts == Split(token, ".")
  IN IF Len(parts) = 3 /\ parts[1] = key /\ parts[3] \in {"0", "1"}
     THEN Return(Obj(<<[k |-> "iat", v |-> Num(1)],
                       [k |-> "username", v |-> Str(parts[2])],
                       [k |-> "isAdmin", v |-> Bool(parts[3] = "1")]>>))
     ELSE Throw("JsonWebTokenError", "invalid token")

\* String.prototype.trim, for blanks
RECURSIVE Trim(_)
Trim(s) ==
  IF Len(s) > 0 /\ SubSeq(s, 1, 1) = " " THEN Trim(SubSeq(s, 2, Len(s)))
  ELSE IF Len(s) > 0 /\ SubSeq(s, Len(s), Len(s)) = " " THEN Trim(SubSeq(s, 1, Len(s) - 1))
  ELSE s

\* authHeader.replace(/^[Bb]earer /, "")
StripBearer(s) ==
  IF Len(s) >= 7 /\ SubSeq(s, 1, 7) \in {"Bearer ", "bearer "}
  THEN SubSeq(s, 8, Len(s))
  ELSE s

\* o with o[key] = v
SetEntry(o, key, v) ==
  IF HasOwn(o, key)
  THEN [o EXCEPT !.e = [i \in 1..Len(o.e) |->
                          IF o.e[i].k = key THEN [k |-> key, v |-> v] ELSE o.e[i]]]
  ELSE [o EXCEPT !.e = Append(o.e, [k |-> key, v |-> v])]

\* authenticateJWT from its return next(); on, after the calls of next
\* already made: catch (err) { return next(); } takes what the first call
\* raises, and what the second raises leaves the middleware
JwtNext(called, locals, raises) ==
  IF ~raises
  THEN [threw |-> FALSE, value |-> Undefined, next |-> Append(called, <<>>),
        locals |-> locals]
  ELSE [threw |-> TRUE, error |-> [name |-> NextRaised.name, message |-> ""],
        next |-> called \o <<(<<>>), (<<>>)>>, locals |-> locals]

\* the catch block of authenticateJWT entered from a throw before next
JwtCaught(locals, raises) ==
  IF ~raises
  THEN [threw |-> FALSE, value |-> Undefined, next |-> <<(<<>>)>>, locals |-> locals]
  ELSE [threw |-> TRUE, error |-> [name |-> NextRaised.name, message |-> ""],
        next |-> <<(<<>>)>>, locals |-> locals]

\* authenticateJWT(req, res, next), next raising synchronously or not; locals
\* is res.locals as the middleware leaves it
authenticateJWT(req, res, raises) ==
  LET headers == Get(req, "headers")
      authHeader == IF Truthy(headers) THEN Get(headers, "authorization") ELSE headers
      locals == Get(res, "locals")
  IN IF ~Truthy(authHeader) THEN JwtNext(<<>>, locals, raises)
     ELSE LET token == Trim(StripBearer(authHeader.s))
              verified == Verify(token, SECRET_KEY)
          IN IF verified.threw THEN JwtCaught(locals, raises)
             ELSE JwtNext(<<>>, SetEntry(locals, "user", verified.value), raises)

\* ensureLoggedIn(req, res, next), next raising synchronously or not
ensureLoggedIn(req, res, raises) ==
  IF Truthy(Get(Get(res, "locals"), "user"))
  THEN NextInTry(raises)
  ELSE Caught(UnauthorizedError, <<>>, raises)

-----------------------------------------------------------------------------
(* routes/jobs.js behind app.js: authenticateJWT for every request, then
   ensureAdmin and the handler of POST /jobs, PATCH /jobs/:id and
   DELETE /jobs/:id; an error passed to next is answered with its status. *)

\* the status the error handler answers an error with
StatusOfError(name) ==
  CASE name = "BadRequestError" -> 400
    [] name = "UnauthorizedError" -> 401
    [] name = "NotFoundError" -> 404
    [] OTHER -> 500

\* the response to a request of a guarded route whose handler, once reached,
\* has the outcome handled and answers success with the status created
Guarded(req, table, handled, created) ==
  LET auth == authenticateJWT(req, Obj(<<[k |-> "locals", v |-> Obj(<<>>)]>>), FALSE)
      guard == ensureAdmin(req, Obj(<<[k |-> "locals", v |-> auth.locals]>>), FALSE)
  IN IF guard.next # <<(<<>>)>>
     THEN [result |-> [threw |-> FALSE, status |-> StatusOfError(guard.next[1][1].name)],
           table |-> table, queries |-> <<>>]
     ELSE [result |-> [threw |-> FALSE,
                       status |-> IF handled.result.threw
                                  THEN StatusOfError(handled.result.error.name)
                                  ELSE created],
           table |-> handled.table, queries |-> handled.queries]

-----------------------------------------------------------------------------
(* Inputs. *)

\* sequences of length n over S without a repeated element
RECURSIVE Perms(_, _)
Perms(S, n) ==
  IF n = 0 THEN {<<>>}
  ELSE UNION {{Append(p, x) : x \in S \ {p[i] : i \in 1..Len(p)}} : p \in Perms(S, n - 1)}

\* the object literal with keys ks and values vs, in that order
ObjectOf(ks, vs) == Obj([i \in 1..Len(ks) |-> [k |-> ks[i], v |-> vs[i]]])

\* object literals with exactly n entries, keys from K and values from V
ObjectsOfSize(K, V, n) ==
  {ObjectOf(ks, vs) : ks \in Perms(K, n), vs \in [1..n -> V]}

ObjectsUpTo(K, V, n) == UNION {ObjectsOfSize(K, V, m) : m \in 0..n}

\* field identifiers of an update payload
UpdateKeys == {"title", "salary", "companyHandle", "toString"}
\* scalar values of an update payload
UpdateVals == {Null, Num(0), Bool(FALSE), Str("Aliya")}

FieldNameMaps ==
  ObjectsUpTo({"companyHandle", "toString"}, {Str("company_handle"), Str("")}, MaxMapEntries)

\* arguments that are no object literal, and the omitted argument
NonMappings == {Undefined, Null, Arr(<<>>), Arr(<<[k |-> "0", v |-> Num(1)]>>), Str("x"), Num(7)}


\* filter names of a filter payload: those of Job.filterBy, one no map knows
\* and one that object literals inherit
CriteriaKeys == {"title", "minSalary", "hasEquity", "age", "toString"}
CriteriaVals == {Str("net"), Num(2), Bool(TRUE), Str("true"), Bool(FALSE), Str("false")}

\* the criterion map of Job.filterBy
JobCriteriaToSql ==
  Obj(<<[k |-> "title", v |-> Str("title ILIKE")],
        [k |-> "minSalary", v |-> Str("salary >=")],
        [k |-> "hasEquity", v |-> Str("equity > 0")]>>)

CriterionMaps ==
  {JobCriteriaToSql,
   Obj(<<[k |-> "age", v |-> Str("age <=")],
         [k |-> "title", v |-> Str("title LIKE")],
         [k |-> "toString", v |-> Str("note NOT ILIKE")]>>)}

JobFields == {"title", "salary", "equity", "companyHandle"}

\* the place of a field in { title, salary, equity, companyHandle }
FieldRank(field) ==
  CASE field = "title" -> 1
    [] field = "salary" -> 2
    [] field = "equity" -> 3
    [] field = "companyHandle" -> 4

\* n fields for the data of an update, in the order above or in its reverse
FieldOrders(n) ==
  {ks \in Perms(JobFields, n) :
     \/ \A i, k \in 1..n : i < k => FieldRank(ks[i]) < FieldRank(ks[k])
     \/ \A i, k \in 1..n : i < k => FieldRank(ks[i]) > FieldRank(ks[k])}

\* the values a job field takes
JobFieldVals(field) ==
  CASE field = "title" -> {Str("dev"), Str("net")}
    [] field = "salary" -> {Null, Num(2)}
    [] field = "equity" -> {Null, Num(0), Num(1)}
    [] field = "companyHandle" -> {Str("c1")}

\* data of Job.create: every field, with a company that exists or does not
NewJobs ==
  {Obj(<<[k |-> "title", v |-> title], [k |-> "salary", v |-> salary],
         [k |-> "equity", v |-> equity], [k |-> "companyHandle", v |-> Str(handle)]>>) :
     title \in JobFieldVals("title"), salary \in JobFieldVals("salary"),
     equity \in JobFieldVals("equity"), handle \in Companies \cup {"nope"}}

JobIds == {Num(i) : i \in 1..MaxId}

\* criteria of Job.filterBy: one, several and no recognised criterion
JobCriteria ==
  {Obj(<<>>),
   Obj(<<[k |-> "invalidCriterion", v |-> Str("invalid")]>>),
   Obj(<<[k |-> "title", v |-> Str("D")],
         [k |-> "invalidCriterion", v |-> Str("invalid")],
         [k |-> "hasEquity", v |-> Bool(TRUE)]>>),
   Obj(<<[k |-> "title", v |-> Str("e")], [k |-> "hasEquity", v |-> Str("true")]>>),
   Obj(<<[k |-> "hasEquity", v |-> Bool(FALSE)], [k |-> "minSalary", v |-> Num(2)]>>)}
    \cup {Obj(<<[k |-> "title", v |-> v]>>) : v \in {Str("1"), Str("N"), Bool(TRUE)}}
    \cup {Obj(<<[k |-> "minSalary", v |-> v]>>) : v \in {Num(2), Str("3"), Str("lots")}}
    \cup {Obj(<<[k |-> "hasEquity", v |-> v]>>) :
            v \in {Bool(TRUE), Bool(FALSE), Str("true"), Str("false"), Num(1)}}

Usernames == {"user", "another-user"}

\* the payloads a token carries: username and isAdmin, each there or not
Users ==
  {Obj(name \o admin) :
     name \in {<<>>} \cup {<<[k |-> "username", v |-> Str(u)]>> : u \in Usernames},
     admin \in {<<>>} \cup {<<[k |-> "isAdmin", v |-> Bool(b)]>> : b \in BOOLEAN}}

\* res with its locals, of a request with or without a logged-in user
Responses ==
  {Obj(<<[k |-> "locals", v |-> Obj(<<>>)]>>)}
    \cup {Obj(<<[k |-> "locals", v |-> Obj(<<[k |-> "user", v |-> user]>>)]>>) :
            user \in Users}

\* req with the parameters of its route
Requests ==
  {Obj(<<[k |-> "params", v |-> Obj(<<>>)]>>)}
    \cup {Obj(<<[k |-> "params", v |-> Obj(<<[k |-> "username", v |-> Str(u)]>>)]>>) :
            u \in Usernames}

\* tokens: signed with the key, signed with another key, and no token at all
Tokens ==
  {Sign("user", isAdmin, SECRET_KEY) : isAdmin \in BOOLEAN}
    \cup {Sign("user", TRUE, "wrong"), "garbage"}

\* values of the authorization header
AuthHeaders ==
  {"", "Bearer "}
    \cup {prefix \o token : prefix \in {"Bearer ", "bearer ", "BEARER ", ""},
                            token \in Tokens}
    \cup {"Bearer  " \o token \o " " : token \in Tokens}

\* req of authenticateJWT: without headers, without the header, with it
JwtRequests ==
  {Obj(<<>>), Obj(<<[k |-> "headers", v |-> Obj(<<>>)]>>)}
    \cup {Obj(<<[k |-> "headers",
                 v |-> Obj(<<[k |-> "authorization", v |-> Str(h)]>>)]>>) :
            h \in AuthHeaders}

\* requests to the jobs routes: anonymous, with the token of an admin, of a
\* user who is none, and with an admin token signed with another key
RouteRequests ==
  {Obj(<<[k |-> "headers", v |-> Obj(<<>>)]>>)}
    \cup {Obj(<<[k |-> "headers",
                 v |-> Obj(<<[k |-> "authorization", v |-> Str("Bearer " \o token)]>>)]>>) :
            token \in {Sign("user", TRUE, SECRET_KEY), Sign("user", FALSE, SECRET_KEY),
                       Sign("user", TRUE, "wrong")}}

\* bodies of PATCH /jobs/:id: one field each
Patches ==
  UNION {{ObjectOf(<<field>>, <<v>>) : v \in JobFieldVals(field)} : field \in JobFields}

-----------------------------------------------------------------------------
(* The calls. *)

Init ==
  /\ pc = "idle"
  /\ call = NoCall
  /\ result = NoResult
  /\ jobs = {}
  /\ nextId = 1
  /\ queries = <<>>

\* a call of one of the builders, which touch nothing but their arguments
Builder(fn, args, outcome) ==
  /\ call' = [fn |-> fn, args |-> args]
  /\ result' = outcome
  /\ pc' = "returned"
  /\ UNCHANGED <<jobs, nextId, queries>>

CallSqlForPartialUpdate ==
  /\ pc = "idle"
  /\ \E j \in FieldNameMaps \cup NonMappings :
       \/ \E d \in NonMappings :
            Builder("sqlForPartialUpdate", <<d, j>>, sqlForPartialUpdate(d, j))
       \/ \E n \in 0..MaxEntries :
            \E ks \in Perms(UpdateKeys, n), vs \in [1..n -> UpdateVals] :
              Builder("sqlForPartialUpdate", <<ObjectOf(ks, vs), j>>,
                      sqlForPartialUpdate(ObjectOf(ks, vs), j))

CallSqlForFilterBy ==
  /\ pc = "idle"
  /\ \E criteriaToSql \in CriterionMaps, n \in 0..MaxEntries :
       \E ks \in Perms(CriteriaKeys, n), vs \in [1..n -> CriteriaVals] :
         Builder("sqlForFilterBy", <<ObjectOf(ks, vs), criteriaToSql>>,
                 sqlForFilterBy(ObjectOf(ks, vs), criteriaToSql))

\* one call of a Job method, from entry to its return or throw
Finish(fn, args, outcome) ==
  /\ call' = [fn |-> fn, args |-> args]
  /\ result' = outcome.result
  /\ jobs' = outcome.table
  /\ queries' = outcome.queries
  /\ pc' = "returned"

JobCreate ==
  /\ pc = "idle"
  /\ \E data \in NewJobs :
       /\ (\E h \in Companies : Get(data, "companyHandle") = Str(h))
            => nextId <= MaxId
       /\ Finish("Job.create", <<data>>, JobCreateOutcome(jobs, nextId, data))
       /\ nextId' = IF JobCreateOutcome(jobs, nextId, data).result.threw
                    THEN nextId ELSE nextId + 1

JobUpdate ==
  /\ pc = "idle"
  /\ \E id \in JobIds, n \in 0..MaxDataEntries :
       \E ks \in FieldOrders(n) :
         \E vs \in {f \in [1..n -> UNION {JobFieldVals(k) : k \in JobFields}] :
                      \A i \in 1..n : f[i] \in JobFieldVals(ks[i])} :
           Finish("Job.update", <<id, ObjectOf(ks, vs)>>,
                  JobUpdateOutcome(jobs, id, ObjectOf(ks, vs)))
  /\ UNCHANGED nextId

JobRemove ==
  /\ pc = "idle"
  /\ \E id \in JobIds :
       Finish("Job.remove", <<id>>, JobRemoveOutcome(jobs, id))
  /\ UNCHANGED nextId

JobGet ==
  /\ pc = "idle"
  /\ \E id \in JobIds :
       Finish("Job.get", <<id>>, JobGetOutcome(jobs, id))
  /\ UNCHANGED nextId

JobFindAll ==
  /\ pc = "idle"
  /\ \E outcome \in JobFindAllOutcomes(jobs) : Finish("Job.findAll", <<>>, outcome)
  /\ UNCHANGED nextId

JobFilterBy ==
  /\ pc = "idle"
  /\ \E criteria \in JobCriteria :
       \E outcome \in JobFilterByOutcomes(jobs, criteria) :
         Finish("Job.filterBy", <<criteria>>, outcome)
  /\ UNCHANGED nextId

\* a call of a middleware, which touches nothing of the store
Middleware(fn, args, outcome) ==
  /\ pc = "idle"
  /\ call' = [fn |-> fn, args |-> args]
  /\ result' = outcome
  /\ pc' = "returned"
  /\ UNCHANGED <<jobs, nextId, queries>>

AuthenticateJWT ==
  \E req \in JwtRequests, res \in Responses, raises \in BOOLEAN :
    Middleware("authenticateJWT", <<req, res, raises>>, authenticateJWT(req, res, raises))

EnsureLoggedIn ==
  \E req \in Requests, res \in Responses, raises \in BOOLEAN :
    Middleware("ensureLoggedIn", <<req, res, raises>>, ensureLoggedIn(req, res, raises))

EnsureAdmin ==
  \E req \in Requests, res \in Responses, raises \in BOOLEAN :
    Middleware("ensureAdmin", <<req, res, raises>>, ensureAdmin(req, res, raises))

EnsureAuthUserOrAdmin ==
  \E req \in Requests, res \in Responses, raises \in BOOLEAN :
    Middleware("ensureAuthUserOrAdmin", <<req, res, raises>>,
               ensureAuthUserOrAdmin(req, res, raises))

PostJobs ==
  /\ pc = "idle"
  /\ \E req \in RouteRequests, data \in NewJobs :
       LET outcome == Guarded(req, jobs, JobCreateOutcome(jobs, nextId, data), 201)
       IN /\ outcome.table # jobs => nextId <= MaxId
          /\ Finish("POST /jobs", <<req, data>>, outcome)
          /\ nextId' = IF outcome.table # jobs THEN nextId + 1 ELSE nextId

PatchJobs ==
  /\ pc = "idle"
  /\ \E req \in RouteRequests, id \in JobIds, data \in Patches :
       Finish("PATCH /jobs/:id", <<req, id, data>>,
              Guarded(req, jobs, JobUpdateOutcome(jobs, id, data), 200))
  /\ UNCHANGED nextId

DeleteJobs ==
  /\ pc = "idle"
  /\ \E req \in RouteRequests, id \in JobIds :
       Finish("DELETE /jobs/:id", <<req, id>>,
              Guarded(req, jobs, JobRemoveOutcome(jobs, id), 200))
  /\ UNCHANGED nextId

\* the caller takes the outcome; the next call starts afresh
Done ==
  /\ pc = "returned"
  /\ pc' = "idle"
  /\ call' = NoCall
  /\ result' = NoResult
  /\ queries' = <<>>
  /\ UNCHANGED <<jobs, nextId>>

NextSql == CallSqlForPartialUpdate \/ CallSqlForFilterBy \/ Done

SpecSql == Init /\ [][NextSql]_vars

Next == JobCreate \/ JobGet \/ JobUpdate \/ JobRemove \/ JobFindAll \/ JobFilterBy \/ Done

Spec == Init /\ [][Next]_vars

NextAuth ==
  AuthenticateJWT \/ EnsureLoggedIn \/ EnsureAdmin \/ EnsureAuthUserOrAdmin \/ Done

SpecAuth == Init /\ [][NextAuth]_vars

NextRoutes == PostJobs \/ PatchJobs \/ DeleteJobs \/ Done

SpecRoutes == Init /\ [][NextRoutes]_vars

-----------------------------------------------------------------------------
(* Properties of sqlForPartialUpdate. *)

Returned(fn) == pc = "returned" /\ call.fn = fn

\* v is a plain key-value mapping
PlainMapping(v) == v.t = "object" /\ v.proto = "Object.prototype"

\* the call at hand is sqlForPartialUpdate(update, fieldNameMap) on two plain
\* mappings, update having at least one entry
UpdateOfMappings ==
  /\ Returned("sqlForPartialUpdate")
  /\ PlainMapping(call.args[1])
  /\ PlainMapping(call.args[2])
  /\ Len(call.args[1].e) > 0

\* item reads '"<column>"=$i' for some column
IsSetItem(item, i) ==
  LET suffix == "\"=$" \o NumberToString(i)
  IN /\ Len(item) > Len(suffix)
     /\ SubSeq(item, 1, 1) = "\""
     /\ SubSeq(item, Len(item) - Len(suffix) + 1, Len(item)) = suffix

\* the column of the item '"<column>"=$i'
ColumnOfItem(item, i) == SubSeq(item, 2, Len(item) - Len("\"=$" \o NumberToString(i)))

\* C1: for a non-empty plain update and a plain fieldNameMap the call
\* returns; values is the sequence of update's values in order, null, 0 and
\* false included; setCols is one '"<column>"=$i' item per entry, joined by
\* ', ', i running 1..n from left to right.
C1_ValuesAndItemsInOrder ==
  UpdateOfMappings =>
    /\ ~result.threw
    /\ LET update == call.args[1]
           n == Len(update.e)
           items == Split(result.value.setCols, ", ")
       IN /\ result.value.values = [i \in 1..n |-> update.e[i].v]
          /\ Len(items) = n
          /\ \A i \in 1..n : IsSetItem(items[i], i)

C1_Witness ==
  /\ UpdateOfMappings
  /\ ~result.threw
  /\ Len(result.value.values) >= 2
  /\ result.value.values[1] = Null
  /\ result.value.values[2] \in {Num(0), Bool(FALSE)}

\* C2: the column emitted for a key of update is fieldNameMap's entry for
\* that key whenever the map has such an entry, whatever string it holds,
\* and the key itself exactly when the map has no entry for it.
C2_ColumnIsMapEntryOrKey ==
  (UpdateOfMappings /\ ~result.threw) =>
    LET update == call.args[1]
        fieldNameMap == call.args[2]
        items == Split(result.value.setCols, ", ")
    IN \A i \in 1..Len(update.e) :
         ColumnOfItem(items[i], i) =
           IF HasOwn(fieldNameMap, update.e[i].k)
           THEN Get(fieldNameMap, update.e[i].k).s
           ELSE update.e[i].k

InvalidArgument ==
  {BadRequestError("Missing args"), BadRequestError("Args must be object literals")}

EmptyUpdate == BadRequestError("No data")

\* C3: whenever either argument is omitted, null or no plain mapping, the
\* call fails with the InvalidArgument error, whatever the other argument
\* holds.
C3_InvalidArgument ==
  (/\ Returned("sqlForPartialUpdate")
   /\ ~(PlainMapping(call.args[1]) /\ PlainMapping(call.args[2])))
    => result \in InvalidArgument

\* C4: given two plain mappings of which update has no entry,
\* sqlForPartialUpdate fails with EmptyUpdate; Job.update with empty data
\* fails with that BadRequestError and has issued no query.
C4_EmptyUpdateFails ==
  /\ \A fieldNameMap \in FieldNameMaps :
       sqlForPartialUpdate(Obj(<<>>), fieldNameMap) = EmptyUpdate
  /\ (Returned("Job.update") /\ Len(call.args[2].e) = 0) =>
       /\ result = EmptyUpdate
       /\ queries = <<>>

C4_Witness ==
  /\ Returned("Job.update")
  /\ Len(call.args[2].e) = 0
  /\ \E row \in jobs : row.id = call.args[1]
  /\ result.threw

-----------------------------------------------------------------------------
(* Properties of sqlForFilterBy. *)

NoValidCriteria == BadRequestError("Could not filter by criteria provided")

\* the call at hand is sqlForFilterBy(criteria, criterionMap)
Filtered == Returned("sqlForFilterBy")

\* key is recognised: criterionMap has an entry for it
Recognised(criterionMap, key) == HasOwn(criterionMap, key)

FalseValued(v) == v \in {Bool(FALSE), Str("false")}
TrueValued(v) == v \in {Bool(TRUE), Str("true")}

\* the fragments of a where clause
Fragments(whereClause) ==
  IF whereClause = "" THEN <<>>
  ELSE Split(SubSeq(whereClause, Len("WHERE ") + 1, Len(whereClause)), " AND ")

StartsWith(s, prefix) == Len(s) >= Len(prefix) /\ SubSeq(s, 1, Len(prefix)) = prefix

IsDigit(ch) == \E n \in 1..10 : SubSeq("0123456789", n, n) = ch

\* the numbers of the placeholders $<n> of s from position i on, left to right
RECURSIVE PlaceholdersFrom(_, _)
PlaceholdersFrom(s, i) ==
  IF i > Len(s) THEN <<>>
  ELSE IF SubSeq(s, i, i) # "$" THEN PlaceholdersFrom(s, i + 1)
  ELSE LET j == CHOOSE m \in i..Len(s) :
                  /\ \A d \in (i + 1)..m : IsDigit(SubSeq(s, d, d))
                  /\ m = Len(s) \/ ~IsDigit(SubSeq(s, m + 1, m + 1))
       IN (IF j > i THEN <<ParseInt(SubSeq(s, i + 1, j))>> ELSE <<>>)
            \o PlaceholdersFrom(s, j + 1)

Placeholders(s) == PlaceholdersFrom(s, 1)

\* the sequence without its i-th element
RemoveAt(seq, i) == SubSeq(seq, 1, i - 1) \o SubSeq(seq, i + 1, Len(seq))

\* criteria without its unrecognised keys
OnlyRecognised(criteria, criterionMap) ==
  LET Keep(en) == Recognised(criterionMap, en.k)
  IN Obj(SelectSeq(criteria.e, Keep))

\* C5: with at least one recognised key, the call returns exactly what it
\* returns for criteria with every unrecognised key removed.
C5_UnrecognisedKeysIgnored ==
  LET criteria == call.args[1]
      criterionMap == call.args[2]
  IN (/\ Filtered
      /\ \E i \in 1..Len(criteria.e) : Recognised(criterionMap, criteria.e[i].k))
       => result = sqlForFilterBy(OnlyRecognised(criteria, criterionMap), criterionMap)

\* C6: the call fails with NoValidCriteria if and only if no key of criteria
\* is a key of criterionMap.
C6_NoValidCriteriaIff ==
  LET criteria == call.args[1]
      criterionMap == call.args[2]
  IN Filtered =>
       ((result = NoValidCriteria)
          <=> (\A i \in 1..Len(criteria.e) : ~Recognised(criterionMap, criteria.e[i].k)))

\* C7: a recognised criterion valued false or 'false' contributes no
\* fragment and no parameter; when every recognised criterion is dropped
\* this way the call returns whereClause '' and no values, without error.
C7_FalseCriteriaDropped ==
  LET criteria == call.args[1]
      criterionMap == call.args[2]
      recognised == {i \in 1..Len(criteria.e) : Recognised(criterionMap, criteria.e[i].k)}
  IN Filtered =>
       /\ ~result.threw =>
            /\ \A i \in recognised :
                 FalseValued(criteria.e[i].v) =>
                   \A p \in 1..Len(Fragments(result.value.whereClause)) :
                     ~StartsWith(Fragments(result.value.whereClause)[p],
                                 Get(criterionMap, criteria.e[i].k).s)
            /\ Len(result.value.values)
                 <= Cardinality({i \in 1..Len(criteria.e) : ~FalseValued(criteria.e[i].v)})
       /\ (recognised # {} /\ \A i \in recognised : FalseValued(criteria.e[i].v))
            => result = Return([whereClause |-> "", values |-> <<>>])

\* C8: a recognised criterion valued true or 'true' emits its predicate
\* verbatim, adds nothing to values and leaves the placeholders of the other
\* criteria as they are without it.
C8_TrueCriteriaVerbatim ==
  LET criteria == call.args[1]
      criterionMap == call.args[2]
  IN (Filtered /\ ~result.threw) =>
       \A i \in 1..Len(criteria.e) :
         (Recognised(criterionMap, criteria.e[i].k) /\ TrueValued(criteria.e[i].v)) =>
           LET predicate == Get(criterionMap, criteria.e[i].k).s
               fragments == Fragments(result.value.whereClause)
               without == sqlForFilterBy(Obj(RemoveAt(criteria.e, i)), criterionMap)
           IN /\ \E p \in 1..Len(fragments) :
                   /\ fragments[p] = predicate
                   /\ ~without.threw =>
                        RemoveAt(fragments, p) = Fragments(without.value.whereClause)
              /\ ~without.threw => result.value.values = without.value.values
              /\ without.threw => /\ fragments = <<predicate>>
                                  /\ result.value.values = <<>>

C8_Witness ==
  /\ Filtered
  /\ ~result.threw
  /\ Len(call.args[1].e) >= 2
  /\ Recognised(call.args[2], call.args[1].e[1].k)
  /\ call.args[1].e[1].v = Str("true")
  /\ Len(result.value.values) = 1
  /\ Placeholders(result.value.whereClause) = <<1>>

\* C9: a recognised criterion with a non-boolean value has its value in
\* values, at the position n of its placeholder, and emits its predicate
\* followed by CONCAT('%', $n::text, '%') exactly when the predicate contains
\* 'ILIKE', and by the bare $n otherwise.
C9_OperandOfValueCriteria ==
  LET criteria == call.args[1]
      criterionMap == call.args[2]
  IN (Filtered /\ ~result.threw) =>
       \A i \in 1..Len(criteria.e) :
         (/\ Recognised(criterionMap, criteria.e[i].k)
          /\ ~TrueValued(criteria.e[i].v)
          /\ ~FalseValued(criteria.e[i].v)) =>
           LET predicate == Get(criterionMap, criteria.e[i].k).s
               fragments == Fragments(result.value.whereClause)
           IN \E p \in 1..Len(fragments), n \in 1..Len(result.value.values) :
                /\ result.value.values[n] = criteria.e[i].v
                /\ fragments[p] =
                     IF Includes(predicate, "ILIKE")
                     THEN predicate \o " CONCAT('%', $" \o NumberToString(n) \o "::text, '%')"
                     ELSE predicate \o " $" \o NumberToString(n)

C9_Witness ==
  /\ Filtered
  /\ ~result.threw
  /\ Len(result.value.values) = 2
  /\ \E p, q \in 1..Len(Fragments(result.value.whereClause)) :
       /\ Includes(Fragments(result.value.whereClause)[p], "CONCAT")
       /\ ~Includes(Fragments(result.value.whereClause)[q], "CONCAT")
       /\ Includes(Fragments(result.value.whereClause)[q], "$")

\* C10: in every successful call the placeholders of whereClause, read from
\* left to right, are $1..$k with k the length of values, and the fragment
\* holding $i is that of a criterion whose value is values[i].
C10_PlaceholdersMatchValues ==
  LET criteria == call.args[1]
      criterionMap == call.args[2]
  IN (Filtered /\ ~result.threw) =>
       LET values == result.value.values
           fragments == Fragments(result.value.whereClause)
       IN /\ Placeholders(result.value.whereClause) = [i \in 1..Len(values) |-> i]
          /\ \A i \in 1..Len(values) :
               \E p \in 1..Len(fragments), j \in 1..Len(criteria.e) :
                 /\ Placeholders(fragments[p]) = <<i>>
                 /\ StartsWith(fragments[p],
                               StringOf(Get(criterionMap, criteria.e[j].k)) \o " ")
                 /\ criteria.e[j].v = values[i]

C10_Witness ==
  /\ Filtered
  /\ ~result.threw
  /\ Len(call.args[1].e) = 3
  /\ TrueValued(call.args[1].e[2].v)
  /\ Len(Fragments(result.value.whereClause)) = 3
  /\ Placeholders(result.value.whereClause) = <<1, 2>>
  /\ result.value.values[1] # result.value.values[2]

EndsWith(s, suffix) ==
  Len(s) >= Len(suffix) /\ SubSeq(s, Len(s) - Len(suffix) + 1, Len(s)) = suffix

C23_OnlyNoValidCriteriaFails ==
  LET criterionMap == call.args[2]
  IN Filtered =>
       /\ result.threw => result = NoValidCriteria
       /\ ~result.threw =>
            /\ DOMAIN result.value = {"whereClause", "values"}
            /\ \A p \in 1..Len(Fragments(result.value.whereClause)) :
                 \E i \in 1..Len(criterionMap.e) :
                   StartsWith(Fragments(result.value.whereClause)[p], criterionMap.e[i].v.s)

-----------------------------------------------------------------------------
(* Properties of the Job model. *)

\* C13: the query of Job.update binds id to $(n+1), n the number of entries
\* of data, and its parameters are the n update values followed by id; the
\* placeholders of the query are $1..$(n+1), one each: $1..$n in the SET
\* list, in this order, and no other '$' in the text but that of the id.
C13_IdBoundAfterValues ==
  (Returned("Job.update") /\ queries # <<>>) =>
    LET id == call.args[1]
        data == call.args[2]
        n == Len(data.e)
        query == queries[1]
        parts == Split(query.text, " WHERE id = ")
        items == Split(SubSeq(parts[1], Len("UPDATE jobs SET ") + 1, Len(parts[1])), ", ")
    IN /\ Len(queries) = 1
       /\ query.params = [i \in 1..(n + 1) |-> IF i <= n THEN data.e[i].v ELSE id]
       /\ Len(parts) = 2
       /\ StartsWith(parts[1], "UPDATE jobs SET ")
       /\ Len(items) = n
       /\ \A i \in 1..n : IsSetItem(items[i], i)
       /\ StartsWith(parts[2], "$" \o NumberToString(n + 1) \o " ")
       /\ Len(Split(parts[2], "$")) = 2

\* an update of two fields of an existing job
C13_Witness ==
  /\ Returned("Job.update")
  /\ ~result.threw
  /\ Len(call.args[2].e) = 2
  /\ Len(queries) = 1
  /\ Len(queries[1].params) = 3

HasEquityFalse == Obj(<<[k |-> "hasEquity", v |-> Bool(FALSE)]>>)

\* the jobs of an array of results, as a sequence
JobsOf(rows) == [i \in 1..Len(rows.e) |-> rows.e[i].v]

\* C14: on every jobs table Job.filterBy({hasEquity: false}) returns what
\* Job.findAll() returns on it, and the other way round: every job once,
\* whatever its equity, ordered by title (jobs of equal title in an order the
\* store chooses, for the one call as for the other).
C14_FalseHasEquityIsFindAll ==
  /\ (Returned("Job.filterBy") /\ call.args[1] = HasEquityFalse) =>
       /\ ~result.threw
       /\ result \in {o.result : o \in JobFindAllOutcomes(jobs)}
       /\ Len(JobsOf(result.value)) = Cardinality(jobs)
       /\ {JobsOf(result.value)[i] : i \in 1..Cardinality(jobs)}
            = {PublicFields(row) : row \in jobs}
       /\ \A i, k \in 1..Cardinality(jobs) :
            i < k => ~StringLess(Get(JobsOf(result.value)[k], "title").s,
                                 Get(JobsOf(result.value)[i], "title").s)
  /\ Returned("Job.findAll") =>
       result \in {o.result : o \in JobFilterByOutcomes(jobs, HasEquityFalse)}

\* two jobs of different titles, one of them without equity, both returned
C14_Witness ==
  /\ Returned("Job.filterBy")
  /\ call.args[1] = HasEquityFalse
  /\ ~result.threw
  /\ Len(result.value.e) = 2
  /\ Get(result.value.e[1].v, "title") = Str("dev")
  /\ Get(result.value.e[2].v, "title") = Str("net")
  /\ Get(result.value.e[1].v, "equity") \in {Null, Str("0")}
  /\ Get(result.value.e[2].v, "equity") = Str("1")

\* the step is a call of fn
Calls(fn) == pc = "idle" /\ pc' = "returned" /\ call'.fn = fn

\* the column of the jobs table behind a field of a job
ColumnOfField(field) == IF field = "companyHandle" THEN "company_handle" ELSE field

\* a given field value as a job carries it: an equity as the text of the number
Carried(field, v) ==
  IF field = "equity" /\ v.t = "number" THEN Str(NumberToString(v.n)) ELSE v

\* the row with the fields named in data set to data's values
Updated(row, data) ==
  [col \in DOMAIN row |->
     IF \E i \in 1..Len(data.e) : ColumnOfField(data.e[i].k) = col
     THEN LET en == CHOOSE en \in {data.e[i] : i \in 1..Len(data.e)} :
                      ColumnOfField(en.k) = col
          IN Carried(en.k, en.v)
     ELSE row[col]]

\* C15: Job.update(id, data) on an existing job, data naming at least one
\* field, succeeds; afterwards that job has the fields named in data at the
\* given values (null included; an equity as the text of the number given)
\* and its other fields as before, every other job is as before, no job is
\* added or lost, and the job returned is the job as it now stands.
C15_UpdateSetsNamedFieldsOnly ==
  [][(Calls("Job.update") /\ Len(call'.args[2].e) > 0
        /\ \E row \in jobs : row.id = call'.args[1]) =>
       LET id == call'.args[1]
           data == call'.args[2]
           old == CHOOSE row \in jobs : row.id = id
       IN /\ ~result'.threw
          /\ jobs' = (jobs \ {old}) \cup {Updated(old, data)}
          /\ \A row \in jobs : row.id # id => row \in jobs'
          /\ Cardinality(jobs') = Cardinality(jobs)
          /\ result'.value = PublicFields(Updated(old, data))
          /\ \A i \in 1..Len(data.e) :
               Get(result'.value, data.e[i].k) = Carried(data.e[i].k, data.e[i].v)
    ]_vars

\* a salary set to null and a company handle set, with another job in the table
C15_Witness ==
  /\ Returned("Job.update")
  /\ ~result.threw
  /\ Cardinality(jobs) = 2
  /\ Len(call.args[2].e) = 2
  /\ Get(call.args[2], "salary") = Null
  /\ HasOwn(call.args[2], "companyHandle")
  /\ Get(result.value, "salary") = Null
  /\ \E row \in jobs : row.id # call.args[1] /\ row.salary # Null

\* the outcome is a NotFoundError
NotFound(outcome) == outcome.threw /\ outcome.error.name = "NotFoundError"

\* C16: Job.get, Job.update with data of at least one entry, and Job.remove,
\* called with an id no job has, fail with NotFoundError and leave the jobs
\* table as it was.
C16_MissingIdNotFound ==
  [][((Calls("Job.get") \/ Calls("Job.remove")
         \/ (Calls("Job.update") /\ Len(call'.args[2].e) > 0))
        /\ ~\E row \in jobs : row.id = call'.args[1]) =>
       (NotFound(result') /\ jobs' = jobs)
    ]_vars

\* Job.get of an id that no job of a table with a job has
C16_Witness ==
  /\ Returned("Job.get")
  /\ jobs # {}
  /\ ~\E row \in jobs : row.id = call.args[1]
  /\ NotFound(result)

\* the handle is that of a company of the companies table
CompanyExists(handle) == \E h \in Companies : handle = Str(h)

\* C17: Job.create with a companyHandle of no company fails with
\* BadRequestError and the jobs table stays as it was; with the handle of a
\* company it adds exactly one job, carrying the given title, salary, equity
\* (as the text of the number given) and companyHandle under an id no job of
\* the table has, keeps every other job, and returns the added job.
C17_CreateChecksCompany ==
  [][Calls("Job.create") =>
       LET data == call'.args[1]
       IN IF ~CompanyExists(Get(data, "companyHandle"))
          THEN /\ result'.threw
               /\ result'.error.name = "BadRequestError"
               /\ jobs' = jobs
          ELSE /\ ~result'.threw
               /\ jobs \subseteq jobs'
               /\ Cardinality(jobs' \ jobs) = 1
               /\ \A row \in jobs' \ jobs :
                    /\ row.title = Get(data, "title")
                    /\ row.salary = Get(data, "salary")
                    /\ row.equity = Carried("equity", Get(data, "equity"))
                    /\ row.company_handle = Get(data, "companyHandle")
                    /\ row.id.t = "number"
                    /\ \A other \in jobs : other.id # row.id
                    /\ result'.value = PublicFields(row)
    ]_vars

\* a second job created, with its own id
C17_Witness ==
  /\ Returned("Job.create")
  /\ ~result.threw
  /\ Cardinality(jobs) = 2
  /\ CompanyExists(Get(call.args[1], "companyHandle"))
  /\ Get(call.args[1], "equity") = Num(1)
  /\ Get(result.value, "equity") = Str("1")
  /\ \E row \in jobs : PublicFields(row) = result.value
  /\ \E row \in jobs : row.id # Get(result.value, "id")

\* C18: a Job.remove(id) on an existing job succeeds and takes exactly that
\* job out of the table: no job with the id remains, so that Job.get(id) and
\* Job.remove(id) on the table it leaves fail with NotFoundError, every other
\* job is as before, and the table stays so until the next call.
C18_RemovedJobIsGone ==
  [][/\ (Calls("Job.remove") /\ \E row \in jobs : row.id = call'.args[1]) =>
          LET id == call'.args[1]
          IN /\ ~result'.threw
             /\ jobs' = {row \in jobs : row.id # id}
             /\ Cardinality(jobs') = Cardinality(jobs) - 1
             /\ \A row \in jobs' : row.id # id
             /\ NotFound(JobGetOutcome(jobs', id).result)
             /\ NotFound(JobRemoveOutcome(jobs', id).result)
             /\ JobGetOutcome(jobs', id).table = jobs'
             /\ JobRemoveOutcome(jobs', id).table = jobs'
     /\ (pc = "returned" /\ pc' = "idle") => jobs' = jobs
    ]_vars

\* one of two jobs removed, the other still in the table
C18_Witness ==
  /\ Returned("Job.remove")
  /\ ~result.threw
  /\ Cardinality(jobs) = 1
  /\ nextId = 3
  /\ \A row \in jobs : row.id # call.args[1]

\* s is t with some of its elements left out
RECURSIVE IsSubsequence(_, _)
IsSubsequence(s, t) ==
  IF Len(s) = 0 THEN TRUE
  ELSE IF Len(t) = 0 THEN FALSE
  ELSE IF s[1] = t[1] THEN IsSubsequence(Tail(s), Tail(t))
  ELSE IsSubsequence(s, Tail(t))

\* criteria without its i-th entry
WithoutEntry(criteria, i) == Obj(RemoveAt(criteria.e, i))

-----------------------------------------------------------------------------
(* Properties of the middleware. *)

\* res.locals.user of the call, undefined when there is none
UserOf(res) ==
  IF HasOwn(Get(res, "locals"), "user") THEN Get(Get(res, "locals"), "user") ELSE Undefined

\* the user is there and its isAdmin is true
IsAdminUser(user) == user # Undefined /\ HasOwn(user, "isAdmin") /\ Get(user, "isAdmin") = Bool(TRUE)

\* next was called with no error
NextWithoutError == \E i \in 1..Len(result.next) : result.next[i] = <<>>

\* C19: ensureAdmin calls next with no error if and only if res.locals.user
\* exists and its isAdmin is true; with no user, or a user whose isAdmin is
\* false or absent, its one call of next passes an UnauthorizedError.
C19_EnsureAdminIffAdmin ==
  Returned("ensureAdmin") =>
    LET user == UserOf(call.args[2])
    IN /\ NextWithoutError <=> IsAdminUser(user)
       /\ IsAdminUser(user) => result.next[1] = <<>>
       /\ ~IsAdminUser(user) => result.next = <<(<<UnauthorizedError>>)>>

\* a logged-in user who is no admin was turned away
C19_Witness ==
  /\ Returned("ensureAdmin")
  /\ UserOf(call.args[2]) # Undefined
  /\ Get(UserOf(call.args[2]), "isAdmin") = Bool(FALSE)
  /\ result.next = <<(<<UnauthorizedError>>)>>

\* C20: ensureAuthUserOrAdmin calls next with no error if and only if
\* res.locals.user exists and its username is that of the route parameter or
\* its isAdmin is true; in every other case, that of a request without a
\* logged-in user included, its one call of next passes an UnauthorizedError.
C20_EnsureUserOrAdminIff ==
  Returned("ensureAuthUserOrAdmin") =>
    LET user == UserOf(call.args[2])
        username == Get(Get(call.args[1], "params"), "username")
        allowed == /\ user # Undefined
                   /\ \/ Get(user, "username") = username
                      \/ IsAdminUser(user)
    IN /\ NextWithoutError <=> allowed
       /\ allowed => result.next[1] = <<>>
       /\ ~allowed => result.next = <<(<<UnauthorizedError>>)>>

\* an admin let through on the route of another user
C20_Witness ==
  /\ Returned("ensureAuthUserOrAdmin")
  /\ UserOf(call.args[2]) # Undefined
  /\ Get(UserOf(call.args[2]), "username") = Str("user")
  /\ Get(Get(call.args[1], "params"), "username") = Str("another-user")
  /\ IsAdminUser(UserOf(call.args[2]))
  /\ result.next = <<(<<>>)>>

\* the authorization header of the request, "" when it has none
HeaderOf(req) ==
  IF HasOwn(req, "headers") /\ HasOwn(Get(req, "headers"), "authorization")
  THEN Get(Get(req, "headers"), "authorization").s
  ELSE ""

\* the header carries, behind an optional 'Bearer ', a token that was signed
\* with the secret key for this username and isAdmin
CarriesTokenOf(header, username, isAdmin) ==
  \E prefix \in {"", "Bearer ", "bearer "}, before, after \in {"", " "} :
    header = prefix \o before \o Sign(username, isAdmin, SECRET_KEY) \o after

\* C21: authenticateJWT passes no error to next, whatever the request. With
\* no authorization header or a token that does not verify against the
\* secret key it leaves res.locals as it was and calls next with no argument;
\* res.locals changes only for a token that verifies, and then it is
\* res.locals.user that is set, to the payload of the token.
C21_AuthenticateNeverFails ==
  Returned("authenticateJWT") =>
    LET header == HeaderOf(call.args[1])
        before == Get(call.args[2], "locals")
        after == result.locals
        verifies == \E u \in Usernames, a \in BOOLEAN : CarriesTokenOf(header, u, a)
    IN /\ Len(result.next) >= 1
       /\ \A i \in 1..Len(result.next) : result.next[i] = <<>>
       /\ ~verifies => after = before
       /\ after # before => verifies
       /\ \A u \in Usernames, a \in BOOLEAN :
            CarriesTokenOf(header, u, a) =>
              /\ ObjectKeys(after) = <<"user">>
              /\ Get(Get(after, "user"), "username") = Str(u)
              /\ Get(Get(after, "user"), "isAdmin") = Bool(a)

\* a request with a token signed with another key, and a user left in place
C21_Witness ==
  /\ Returned("authenticateJWT")
  /\ HeaderOf(call.args[1]) = "Bearer " \o Sign("user", TRUE, "wrong")
  /\ HasOwn(Get(call.args[2], "locals"), "user")
  /\ result.locals = Get(call.args[2], "locals")
  /\ result.next = <<(<<>>)>>

\* the state is that after a call of one of the four middleware
MiddlewareReturned ==
  \/ Returned("authenticateJWT")
  \/ Returned("ensureLoggedIn")
  \/ Returned("ensureAuthUserOrAdmin")
  \/ Returned("ensureAdmin")

\* C24: each of authenticateJWT, ensureLoggedIn, ensureAuthUserOrAdmin and
\* ensureAdmin invokes next exactly once per invocation, for every request
\* and every res.locals, also when next raises synchronously.
C24_NextExactlyOnce ==
  MiddlewareReturned => Len(result.next) = 1

-----------------------------------------------------------------------------
(* Properties of the guarded routes. *)

\* the request carries a token signed with the secret key for an admin
AdminRequest(req) == \E u \in Usernames : CarriesTokenOf(HeaderOf(req), u, TRUE)

\* the step is a request to one of the routes POST, PATCH, DELETE on /jobs
GuardedRequest ==
  Calls("POST /jobs") \/ Calls("PATCH /jobs/:id") \/ Calls("DELETE /jobs/:id")

====
